---------------------------- MODULE Spec2Model ----------------------------
(***************************************************************************)
(* Model of the audio-processing orchestrator                              *)
(* (src/orchestrator/app: main.py, tasks.py, crud.py, models.py).          *)
(*                                                                         *)
(* State: the Job Store (jobs table, sentiment_results table), the task    *)
(* queue of the Celery broker, the result backend, and the position of the *)
(* HTTP handler that created the job.  One action per handler step and per *)
(* task execution (one attempt of one unit).                               *)
(*                                                                         *)
(* One job is followed from its creation to the end of its pipeline: units *)
(* of different jobs touch different rows and different messages.  Time is *)
(* abstracted: a retried message is back on the queue at once.             *)
(*                                                                         *)
(* Python values carried in task arguments and results are modelled as     *)
(* sequences of strings: a scalar "x" is <<"x">>, a list of scalars is the *)
(* sequence of its elements, a dict is <<"dict", ...>>.                    *)
(***************************************************************************)
EXTENDS Naturals, Sequences, FiniteSets, TLC

VARIABLES
    jobs,               \* jobs table: job id -> row            (models.Job)
    sentiment_results,  \* sentiment_results table, in insertion order
    request,            \* position of the upload / webhook handler
    queue,              \* task messages waiting at the broker
    backend,            \* result backend: unit -> [state, result]
    sent,               \* history: units ever published to the broker
    exhausted,          \* history: units whose self.retry() hit max_retries
    faulted,            \* history: units with an external call that failed
    answers,            \* history: <<unit, answer>> of the sentiment service
    notifications,      \* task names passed to send_notification
    infra_faults,       \* whether the broker / the store write of finalize may fail
    executions,         \* history: unit -> number of times its body was called
    delays,             \* history: unit -> countdowns of its retries, in order
    auth_log,           \* history: the last invocation of get_auth_token
    notify_errors,      \* history: task names whose send_notification failed inside
    last_op,            \* history: the last Job Store write called directly
    settings_valid,     \* whether the configured credentials are accepted
    sessions,           \* unit -> the row its database session loaded last
    blobs,              \* object paths stored in the Storage Service
    service_settings,   \* notification service: its Settings
    notification_history, \* notification service: the in-memory history
    requests,           \* notification service: /notify requests pending, handled
    send_log            \* history: the sends of the last /notify request

\* the state of the notification service
service_vars == <<service_settings, notification_history, requests, send_log>>

vars == <<jobs, sentiment_results, request, queue, backend, sent, exhausted,
          faulted, answers, notifications, infra_faults, executions, delays,
          auth_log, notify_errors, last_op, settings_valid, sessions,
          blobs, service_settings, notification_history, requests,
          send_log>>

---------------------------------------------------------------------------
(* Bounds and program constants *)

\* number of competitor names the detection service may return
NumCompetitors == 2

\* @celery_app.task(bind=True, max_retries=3, default_retry_delay=60)
max_retries == 3

default_retry_delay == 60

\* def get_auth_token(max_retries=3)
auth_max_retries == 3

CompetitorNames == <<"Acme", "Globex", "Initech", "Umbrella">>

Competitors == {CompetitorNames[i] : i \in 1..NumCompetitors}

Channels == {"left", "right"}

JobId == "job-1"

NULL == "NULL"

\* competitors_found column before detection ran (nullable ARRAY)
NullList == <<"NULL">>

\* a Python list with no elements
EmptyList == <<>>

---------------------------------------------------------------------------
(* Job Store: models.py, crud.py *)

JobStatus == {"PENDING", "PROCESSING", "COMPLETED", "FAILED"}

\* a nullable DateTime column that holds no time
NoTime == 0

RECURSIVE SetMax(_)
SetMax(S) ==
    IF S = {} THEN 0
    ELSE LET x == CHOOSE y \in S : TRUE
             m == SetMax(S \ {x})
         IN  IF x > m THEN x ELSE m

\* datetime.utcnow() at a write to the table: a time after every time the
\* table holds
Now(tbl) ==
    1 + SetMax(UNION {{tbl[i].created_at, tbl[i].updated_at, tbl[i].completed_at} :
                        i \in DOMAIN tbl})

\* crud.create_job: a new row, status PENDING, every nullable column NULL,
\* created_at and updated_at from their column defaults
NewJob(filename, now) ==
    [ filename              |-> filename,
      status                |-> "PENDING",
      error_message         |-> NULL,
      left_channel_url      |-> NULL,
      right_channel_url     |-> NULL,
      left_transcript_path  |-> NULL,
      right_transcript_path |-> NULL,
      competitors_found     |-> NullList,
      created_at            |-> now,
      updated_at            |-> now,
      completed_at          |-> NoTime ]

create_job(tbl, id, filename) == (id :> NewJob(filename, Now(tbl))) @@ tbl

\* crud.get_job: the row, or None
HasJob(tbl, id) == id \in DOMAIN tbl

\* what the update_* functions return: the refreshed row, or None when
\* get_job found no row (nothing is raised)
UpdateReturns(tbl, id) == IF HasJob(tbl, id) THEN "row" ELSE "None"

\* mutant: completed_at is never stamped
update_job_status_unstamped(tbl, id, status, error_message) ==
    IF ~HasJob(tbl, id) THEN tbl
    ELSE [tbl EXCEPT
            ![id].status = status,
            ![id].updated_at = Now(tbl),
            ![id].error_message =
                IF error_message # NULL THEN error_message ELSE @]

\* crud.update_job_status: no-op when the job does not exist; the error
\* message is written only when one is given; completed_at is stamped at
\* every call with COMPLETED
update_job_status(tbl, id, status, error_message) ==
    IF ~HasJob(tbl, id) THEN tbl
    ELSE [tbl EXCEPT
            ![id].status = status,
            ![id].updated_at = Now(tbl),
            ![id].error_message =
                IF error_message # NULL THEN error_message ELSE @,
            ![id].completed_at =
                IF status = "COMPLETED" THEN Now(tbl) ELSE @]

\* mutant: only the left url is stored
update_job_channel_urls_left_only(tbl, id, left, right) ==
    IF ~HasJob(tbl, id) THEN tbl
    ELSE [tbl EXCEPT ![id].left_channel_url = left,
                     ![id].updated_at = Now(tbl)]

\* crud.update_job_channel_urls
update_job_channel_urls(tbl, id, left, right) ==
    IF ~HasJob(tbl, id) THEN tbl
    ELSE [tbl EXCEPT ![id].left_channel_url = left,
                     ![id].right_channel_url = right,
                     ![id].updated_at = Now(tbl)]

\* mutant: a path written over a recorded one is stored under a new name
update_job_transcript_paths_renamed(tbl, id, left, right) ==
    IF ~HasJob(tbl, id) THEN tbl
    ELSE [tbl EXCEPT
            ![id].left_transcript_path =
                IF left = NULL THEN @ ELSE IF @ = NULL THEN left ELSE "renamed",
            ![id].right_transcript_path =
                IF right = NULL THEN @ ELSE IF @ = NULL THEN right ELSE "renamed",
            ![id].updated_at = Now(tbl)]

\* crud.update_job_transcript_paths
update_job_transcript_paths(tbl, id, left, right) ==
    IF ~HasJob(tbl, id) THEN tbl
    ELSE [tbl EXCEPT
            ![id].left_transcript_path = IF left # NULL THEN left ELSE @,
            ![id].right_transcript_path = IF right # NULL THEN right ELSE @,
            ![id].updated_at = Now(tbl)]

\* mutant: the list is not stored
update_job_competitors_dropped(tbl, id, competitors) == tbl

\* mutant: a row is made up for a job that does not exist
update_job_competitors_upsert(tbl, id, competitors) ==
    IF ~HasJob(tbl, id)
    THEN (id :> [NewJob("", Now(tbl)) EXCEPT !.competitors_found = competitors])
         @@ tbl
    ELSE [tbl EXCEPT ![id].competitors_found = competitors,
                     ![id].updated_at = Now(tbl)]

update_job_competitors(tbl, id, competitors) ==
    IF ~HasJob(tbl, id) THEN tbl
    ELSE [tbl EXCEPT ![id].competitors_found = competitors,
                     ![id].updated_at = Now(tbl)]

\* models.SentimentResult: the mapped columns, and those that are NOT NULL
\* and have no default
SentimentResultColumns ==
    {"id", "job_id", "competitor_name", "segment_text", "sentiment",
     "detection_method", "detection_details", "segment_id", "start_time",
     "end_time", "context", "metadata_json", "created_at"}

SentimentResultRequired ==
    {"job_id", "competitor_name", "segment_text", "sentiment",
     "detection_method"}

\* keyword arguments crud.create_sentiment_result passes to the constructor
CreateSentimentResultKwargs == {"job_id", "competitor_name", "result_json"}

\* whether models.SentimentResult(**kwargs) followed by commit goes through:
\* the declarative constructor rejects a keyword that is no mapped column,
\* and the insert rejects a NULL in a NOT NULL column
SentimentResultInsertable(kwargs) ==
    /\ kwargs \subseteq SentimentResultColumns
    /\ SentimentResultRequired \subseteq kwargs

\* mutant: the row is committed before the call raises
create_sentiment_result_committed(rows, id, competitor_name, result_json) ==
    [raised |-> TRUE,
     rows   |-> Append(rows, [job_id          |-> id,
                              competitor_name |-> competitor_name,
                              sentiment       |-> NULL,
                              result_json     |-> result_json])]

\* crud.create_sentiment_result: [raised, rows]
create_sentiment_result(rows, id, competitor_name, result_json) ==
    IF SentimentResultInsertable(CreateSentimentResultKwargs)
    THEN [raised |-> FALSE,
          rows   |-> Append(rows, [job_id          |-> id,
                                   competitor_name |-> competitor_name,
                                   sentiment       |-> NULL,
                                   result_json     |-> result_json])]
    ELSE [raised |-> TRUE, rows |-> rows]

---------------------------------------------------------------------------
(* Task queue: the units of tasks.py and the Celery primitives they use *)

\* a unit is <<task name, key>>; the key tells the units of one task apart
Unit(task, key) == <<task, key>>

Units ==
    {Unit("process_audio_pipeline", ""), Unit("process_transcriptions", ""),
     Unit("analyze_competitors", ""), Unit("process_sentiment_analysis", ""),
     Unit("finalize_job", "")}
    \cup {Unit("transcribe_audio_channel", c) : c \in Channels}
    \cup {Unit("analyze_sentiment_for_competitor", c) : c \in Competitors}

\* number of positional arguments each task function accepts (self excluded)
Arity(task) ==
    CASE task = "transcribe_audio_channel"         -> {3}
      [] task = "analyze_competitors"              -> {3}
      [] task = "analyze_sentiment_for_competitor" -> {4, 5}
      [] task = "finalize_job"                     -> {2}
      [] task = "process_audio_pipeline"           -> {1}
      [] task = "process_transcriptions"           -> {2}
      [] task = "process_sentiment_analysis"       -> {5}

\* task.s(*args): a signature
Sig(task, key, args) == [id |-> Unit(task, key), args |-> args]

\* the message apply_async publishes for a signature: `chain` holds the
\* signatures still to run after it, `chord` the body of the chord it is a
\* header of (<<>> when none)
Message(sig, chain, chord) ==
    [id |-> sig.id, args |-> sig.args, retries |-> 0,
     chain |-> chain, chord |-> chord]

\* a linked signature is applied with the parent's result as first argument
WithParentResult(sig, retval) == [sig EXCEPT !.args = <<retval>> \o @]

\* chain(s1, ..., sn).apply_async(): s1 is published, the rest travels along
ChainApplyAsync(sigs) == {Message(Head(sigs), Tail(sigs), <<>>)}

\* chain(group(h1, h2), body).apply_async(): a chord; the header tasks are
\* published together, each carrying the body
ChordApplyAsync(header, body) ==
    {Message(header[i], <<>>, <<body>>) : i \in 1..Len(header)}

\* the header of the one chord of the pipeline, in group order
ChordHeader ==
    <<Unit("transcribe_audio_channel", "left"),
      Unit("transcribe_audio_channel", "right")>>

\* mutant: the body runs as soon as one header task has succeeded
ChordReadyAny(be) ==
    \E i \in 1..Len(ChordHeader) : be[ChordHeader[i]].state = "SUCCESS"

\* mutant: the body runs once every header task has returned, failed or not
ChordReadyReturned(be) ==
    \A i \in 1..Len(ChordHeader) :
        be[ChordHeader[i]].state \in {"SUCCESS", "FAILURE"}

\* the chord's join: the body runs once every header task has returned, and
\* only if all of them succeeded
ChordReady(be) ==
    \A i \in 1..Len(ChordHeader) : be[ChordHeader[i]].state = "SUCCESS"

\* mutant: the results in the reverse of the group order
ChordResultsReversed(be) ==
    be[ChordHeader[2]].result \o be[ChordHeader[1]].result

\* the list of the header results, in group order
ChordResults(be) == be[ChordHeader[1]].result \o be[ChordHeader[2]].result

\* what the worker publishes when message m has succeeded with retval:
\* the next link of its chain, and the chord body when m completes the header
Callbacks(m, retval, be) ==
    (IF m.chain # <<>>
     THEN {Message(WithParentResult(Head(m.chain), retval),
                   Tail(m.chain), <<>>)}
     ELSE {})
    \cup
    (IF m.chord # <<>> /\ ChordReady(be)
     THEN {Message(WithParentResult(m.chord[1], ChordResults(be)),
                   <<>>, <<>>)}
     ELSE {})

\* mutant: a publish that raises has enqueued its messages all the same
ApplyAsyncLeaky(ok, msgs) == msgs

\* apply_async / delay at the broker: what reaches the queue; when the
\* publish raises, nothing was enqueued
ApplyAsync(ok, msgs) == IF ok THEN msgs ELSE {}

\* outcomes of a publish to the broker (and of the store write of finalize)
InfraOutcomes == IF infra_faults THEN BOOLEAN ELSE {TRUE}

\* mutant: one more retry is allowed before the limit is seen
RetryRaisesLate(m, exc) ==
    IF m.retries > max_retries
    THEN (IF exc # NULL THEN exc ELSE "MaxRetriesExceededError")
    ELSE "Retry"

\* mutant: the exception is raised on the first attempt, no retry
RetryRaisesAtOnce(m, exc) == exc

\* what self.retry(exc=e, ...) raises: Retry while retries remain (the task
\* is re-sent), and at the limit the exception it was given, or
\* MaxRetriesExceededError when it was given none
RetryRaises(m, exc) ==
    IF m.retries + 1 > max_retries
    THEN (IF exc # NULL THEN exc ELSE "MaxRetriesExceededError")
    ELSE "Retry"

\* UUID(job_id) raises unless job_id is the text of a uuid
UUIDs == {JobId}

ValidUUID(v) == Len(v) = 1 /\ v[1] \in UUIDs

\* the task is called with the message's arguments; a wrong number of them
\* is a TypeError before the body runs
ArgsOk(m) == Len(m.args) \in Arity(m.id[1])

\* the message leaves the queue with the unit succeeded; `published` is what
\* the task body itself sent
TaskSucceeds(m, retval, published) ==
    LET be  == [backend EXCEPT ![m.id] = [state |-> "SUCCESS", result |-> retval]]
        new == published \cup Callbacks(m, retval, be)
    IN  /\ backend' = be
        /\ queue' = (queue \ {m}) \cup new
        /\ sent' = sent \cup {n.id : n \in new}
        /\ executions' = [executions EXCEPT ![m.id] = @ + 1]
        /\ delays' = delays

\* the task raised exc: its chain is dropped, and a chord it belongs to
\* never runs its body; the backend keeps the exception
TaskFailsWith(m, exc) ==
    /\ backend' = [backend EXCEPT ![m.id] = [state |-> "FAILURE", result |-> <<exc>>]]
    /\ queue' = queue \ {m}
    /\ sent' = sent
    /\ executions' = [executions EXCEPT ![m.id] = @ + 1]
    /\ delays' = delays

\* the task raised the exception of its own body
TaskFails(m) == TaskFailsWith(m, "Exception")

\* mutant: the delay shrinks as the retries go on
RetryCountdownShrinking(m) == 2 ^ (max_retries - m.retries)

\* mutant: the delay grows linearly
RetryCountdownLinear(m) == 2 * m.retries

\* countdown=2 ** self.request.retries, the delay before the message is
\* delivered again (it replaces the task's default_retry_delay)
RetryCountdown(m) == 2 ^ m.retries

\* the task raised Retry: the same message is sent again, retries + 1
TaskRetries(m) ==
    /\ backend' = [backend EXCEPT ![m.id] = [state |-> "RETRY", result |-> <<>>]]
    /\ queue' = (queue \ {m}) \cup {[m EXCEPT !.retries = @ + 1]}
    /\ sent' = sent
    /\ executions' = [executions EXCEPT ![m.id] = @ + 1]
    /\ delays' = [delays EXCEPT ![m.id] = Append(@, RetryCountdown(m))]

\* a task called with the wrong number of arguments
BadCall(m) ==
    /\ ~ArgsOk(m)
    /\ TaskFails(m)
    /\ UNCHANGED <<jobs, sentiment_results, request, exhausted, faulted,
                   answers, notifications, notify_errors, infra_faults,
                   settings_valid, auth_log, last_op, sessions, blobs,
                   service_vars>>

---------------------------------------------------------------------------
(* HTTP front door: main.py upload_audio and webhook *)

NoRequest == [endpoint |-> "none", pc |-> "idle", file_url |-> FALSE]

\* mutant: the handler forgets to set PROCESSING before dispatching
MarkProcessingSkipped(tbl, id) == tbl

\* the status a handler sets once the split succeeded
MarkProcessing(tbl, id) == update_job_status(tbl, id, "PROCESSING", NULL)

\* POST /upload: the job row is created before anything else is tried (a
\* request without filename is answered 400 and creates nothing)
upload_audio ==
    /\ request.pc = "idle"
    /\ jobs' = create_job(jobs, JobId, "call.mp3")
    /\ request' = [endpoint |-> "upload", pc |-> "split", file_url |-> TRUE]
    /\ UNCHANGED <<sentiment_results, queue, backend, sent, exhausted, faulted,
                   answers, notifications, notify_errors, infra_faults,
                   settings_valid, executions, delays, auth_log, last_op,
                   sessions, blobs, service_vars>>

\* POST /webhook: the same, the file comes from request.file_url
webhook ==
    /\ request.pc = "idle"
    /\ \E file_url \in BOOLEAN :
          request' = [endpoint |-> "webhook", pc |-> "split",
                      file_url |-> file_url]
    /\ jobs' = create_job(jobs, JobId, "call.mp3")
    /\ UNCHANGED <<sentiment_results, queue, backend, sent, exhausted, faulted,
                   answers, notifications, notify_errors, infra_faults,
                   settings_valid, executions, delays, auth_log, last_op,
                   sessions, blobs, service_vars>>

\* error message of the handler's except clause
HandlerError(endpoint, exc) ==
    IF endpoint = "webhook" THEN "Webhook error"
    ELSE IF exc = "HTTPError" THEN "Audio split service error"
    ELSE "Upload error"

\* (download and) split the file, then record the channel urls; any
\* exception marks the job FAILED
SplitAudio ==
    /\ request.pc = "split"
    /\ \E outcome \in {"ok", "HTTPError", "KeyError"} :
          IF request.endpoint = "webhook" /\ ~request.file_url
          THEN \* raise HTTPException(400), caught by except Exception
               /\ jobs' = update_job_status(jobs, JobId, "FAILED",
                              HandlerError(request.endpoint, "HTTPException"))
               /\ request' = [request EXCEPT !.pc = "error"]
          ELSE IF outcome = "ok"
          THEN /\ jobs' = update_job_channel_urls(jobs, JobId,
                              "http://split/left.mp3", "http://split/right.mp3")
               /\ request' = [request EXCEPT !.pc = "urls_set"]
          ELSE /\ jobs' = update_job_status(jobs, JobId, "FAILED",
                              HandlerError(request.endpoint, outcome))
               /\ request' = [request EXCEPT !.pc = "error"]
    /\ UNCHANGED <<sentiment_results, queue, backend, sent, exhausted, faulted,
                   answers, notifications, notify_errors, infra_faults,
                   settings_valid, executions, delays, auth_log, last_op,
                   sessions, blobs, service_vars>>

\* crud.update_job_status(db, job.id, PROCESSING)
SetProcessing ==
    /\ request.pc = "urls_set"
    /\ jobs' = MarkProcessing(jobs, JobId)
    /\ request' = [request EXCEPT !.pc = "processing"]
    /\ UNCHANGED <<sentiment_results, queue, backend, sent, exhausted, faulted,
                   answers, notifications, notify_errors, infra_faults,
                   settings_valid, executions, delays, auth_log, last_op,
                   sessions, blobs, service_vars>>

\* process_audio_pipeline.delay(str(job.id)), and the except clause when
\* the publish raises
DelayPipeline ==
    /\ request.pc = "processing"
    /\ \E ok \in InfraOutcomes :
          LET new == ApplyAsync(ok, {Message(
                         Sig("process_audio_pipeline", "", <<<<JobId>>>>),
                         <<>>, <<>>)})
          IN  /\ queue' = queue \cup new
              /\ sent' = sent \cup {n.id : n \in new}
              /\ IF ok
                 THEN /\ request' = [request EXCEPT !.pc = "done"]
                      /\ jobs' = jobs
                 ELSE /\ request' = [request EXCEPT !.pc = "error"]
                      /\ jobs' = update_job_status(jobs, JobId, "FAILED",
                                     HandlerError(request.endpoint, "OperationalError"))
    /\ UNCHANGED <<sentiment_results, backend, exhausted, faulted, answers,
                   notifications, notify_errors, infra_faults, settings_valid,
                   executions, delays, auth_log, last_op, sessions, blobs,
                   service_vars>>

---------------------------------------------------------------------------
(* Workers: one action per task of tasks.py; each step runs one attempt *)

None == <<"None">>

\* transcript_path = f"transcripts/{job_id}/{channel_name}_transcript.json"
TranscriptPath(id, channel_name) ==
    IF channel_name = "left"
    THEN "transcripts/job-1/left_transcript.json"
    ELSE "transcripts/job-1/right_transcript.json"

\* the lists the detection service may answer with
CompetitorLists ==
    {s \in UNION {[1..n -> Competitors] : n \in 0..NumCompetitors} :
        \A i, j \in DOMAIN s : i # j => s[i] # s[j]}

\* the dict a scoring unit returns
SentimentDict(competitor_name, overall_sentiment) ==
    <<"dict", competitor_name, overall_sentiment>>

\* the answers of the auth service to the successive calls of one
\* get_auth_token(): TRUE when the call returned a response with a token
AuthResponses == [1..auth_max_retries -> BOOLEAN]

\* with credentials the auth service does not accept, every call fails
AuthAnswers ==
    IF settings_valid THEN AuthResponses
    ELSE {[i \in 1..auth_max_retries |-> FALSE]}

\* the token the auth service hands out at its i-th call
AuthTokens == <<"token-1", "token-2", "token-3">>

AuthToken(i) == <<AuthTokens[i]>>

NoAuth == [responses |-> <<>>, calls |-> 0, sleeps |-> <<>>,
           raised |-> FALSE, token |-> None]

\* the answers to the calls that were made
Seen(responses, calls) == [i \in 1..calls |-> responses[i]]

\* mutant: the last attempt is not recognised, the loop runs out
AuthGivesUpNever(attempt, limit) == attempt = limit

\* `if attempt == max_retries - 1: raise`
AuthGivesUp(attempt, limit) == attempt = limit - 1

\* get_auth_token: `for attempt in range(max_retries)`, from `attempt` on;
\* a call that answers returns its token, a call that fails re-raises on the
\* last attempt and sleeps 2 ** attempt otherwise; `return None` after the
\* loop
RECURSIVE AuthLoop(_, _, _)
AuthLoop(responses, attempt, sleeps) ==
    IF attempt >= auth_max_retries
    THEN [responses |-> Seen(responses, attempt), calls |-> attempt,
          sleeps |-> sleeps, raised |-> FALSE, token |-> None]
    ELSE IF responses[attempt + 1]
    THEN [responses |-> Seen(responses, attempt + 1), calls |-> attempt + 1,
          sleeps |-> sleeps, raised |-> FALSE, token |-> AuthToken(attempt + 1)]
    ELSE IF AuthGivesUp(attempt, auth_max_retries)
    THEN [responses |-> Seen(responses, attempt + 1), calls |-> attempt + 1,
          sleeps |-> sleeps, raised |-> TRUE, token |-> None]
    ELSE AuthLoop(responses, attempt + 1, Append(sleeps, 2 ^ attempt))

get_auth_token(responses) == AuthLoop(responses, 0, <<>>)

\* what the POST to the notification service does: it is answered, or
\* httpx raises (connection refused, timeout)
NotifyOutcomes == {"ok", "ConnectError", "TimeoutException"}

\* mutant: the exception of the POST leaves send_notification
send_notification_unguarded(outcome) ==
    [raised |-> outcome # "ok", delivered |-> outcome = "ok"]

\* send_notification: its whole body is under `try: ... except Exception`,
\* which prints and returns
send_notification(outcome) ==
    [raised |-> FALSE, delivered |-> outcome = "ok"]

\* mutant: the notification is sent whether or not the job was found
NotifyAlways(ns, tbl, id, task_name) == ns \cup {task_name}

\* send_notification is called only when the job row was found
Notify(ns, tbl, id, task_name) ==
    IF HasJob(tbl, id) THEN ns \cup {task_name} ELSE ns

\* mutant: the except clause only re-raises
FailJobSilent(m, job_id, error_msg, task_name) ==
    TaskFails(m) /\ UNCHANGED <<jobs, notifications, notify_errors>>

\* the except clause of a coordinating task or of finalize_job: look the job
\* up, mark it FAILED, notify, re-raise.  UUID(job_id) raising inside the
\* clause leaves the store untouched
FailJob(m, job_id, error_msg, task_name) ==
    IF ValidUUID(job_id)
    THEN \E outcome \in NotifyOutcomes :
           LET called == HasJob(jobs, job_id[1])
               n      == send_notification(outcome)
           IN  /\ jobs' = update_job_status(jobs, job_id[1], "FAILED", error_msg)
               /\ notifications' = Notify(notifications, jobs, job_id[1], task_name)
               /\ notify_errors' = IF called /\ outcome # "ok"
                                   THEN notify_errors \cup {task_name}
                                   ELSE notify_errors
               \* the bare `raise` re-raises the exception of the body,
               \* unless send_notification raised before it
               /\ TaskFailsWith(m, IF called /\ n.raised THEN outcome
                                     ELSE "Exception")
    ELSE TaskFails(m) /\ UNCHANGED <<jobs, notifications, notify_errors>>

\* the except clause of transcribe_audio_channel and analyze_competitors:
\* self.retry(exc=e), and the terminal handler under
\* `except MaxRetriesExceededError`
RetryOrAbort(m, exc, error_msg, task_name) ==
    LET raised == RetryRaises(m, exc)
    IN  /\ exhausted' = IF raised = "Retry" THEN exhausted
                        ELSE exhausted \cup {m.id}
        /\ IF raised = "Retry"
           THEN TaskRetries(m) /\ UNCHANGED <<jobs, notifications, notify_errors>>
           ELSE IF raised = "MaxRetriesExceededError"
           THEN FailJob(m, m.args[1], error_msg, task_name)
           ELSE TaskFails(m) /\ UNCHANGED <<jobs, notifications, notify_errors>>

\* mutant: the Storage Service answers 2xx without keeping the object
StoreBlobLost(bs, object_path, ok) == bs

\* POST {STORAGE_URL}/upload followed by raise_for_status(): the object is
\* in the bucket when the call returns, and not when it raised
StoreBlob(bs, object_path, ok) == IF ok THEN bs \cup {object_path} ELSE bs

\* mutant: the signatures carry no url, the unit is left to look it up
transcription_group_bare(job_id, job) ==
    <<Sig("transcribe_audio_channel", "left",
          <<job_id, <<NULL>>, <<"left">>>>),
      Sig("transcribe_audio_channel", "right",
          <<job_id, <<NULL>>, <<"right">>>>)>>

\* group(transcribe_audio_channel.s(job_id, job.left_channel_url, 'left'),
\*       transcribe_audio_channel.s(job_id, job.right_channel_url, 'right')):
\* the urls are read from the job row here and travel in the messages
transcription_group(job_id, job) ==
    <<Sig("transcribe_audio_channel", "left",
          <<job_id, <<job.left_channel_url>>, <<"left">>>>),
      Sig("transcribe_audio_channel", "right",
          <<job_id, <<job.right_channel_url>>, <<"right">>>>)>>

process_audio_pipeline ==
    \E m \in queue :
      /\ m.id[1] = "process_audio_pipeline"
      /\ IF ~ArgsOk(m) THEN BadCall(m)
         ELSE LET job_id == m.args[1] IN
           /\ IF ~ValidUUID(job_id)
              THEN TaskFails(m) /\ UNCHANGED <<jobs, notifications, notify_errors>>
              ELSE IF ~HasJob(jobs, job_id[1])
              THEN \* raise Exception("Job not found"); the handler finds no job
                   FailJob(m, job_id, "Pipeline initialization failed",
                           "process_audio_pipeline")
              ELSE \E ok \in InfraOutcomes :
                     LET job == jobs[job_id[1]]
                         header == transcription_group(job_id, job)
                         body == Sig("process_transcriptions", "", <<job_id>>)
                     IN IF ok
                        THEN /\ TaskSucceeds(m, None,
                                   ApplyAsync(ok, ChordApplyAsync(header, body)))
                             /\ UNCHANGED <<jobs, notifications, notify_errors>>
                        ELSE FailJob(m, job_id, "Pipeline initialization failed",
                                     "process_audio_pipeline")
           /\ UNCHANGED <<sentiment_results, request, exhausted, faulted,
                          answers, infra_faults, settings_valid, auth_log,
                          last_op, sessions, blobs, service_vars>>

transcribe_audio_channel ==
    \E m \in queue :
      /\ m.id[1] = "transcribe_audio_channel"
      /\ IF ~ArgsOk(m) THEN BadCall(m)
         ELSE LET job_id       == m.args[1]
                  channel_name == m.args[3][1]
                  path         == TranscriptPath(job_id[1], channel_name)
              IN
           /\ \E responses \in AuthAnswers, rest_ok \in BOOLEAN,
                 db_ok \in InfraOutcomes :
                \* rest_ok: download, transcribe and store all answered;
                \* db_ok: the commit of update_job_transcript_paths went through
                LET auth     == get_auth_token(responses)
                    calls_ok == ~auth.raised /\ rest_ok
                IN
                /\ auth_log' = auth
                /\ faulted' = IF calls_ok /\ db_ok THEN faulted
                              ELSE faulted \cup {m.id}
                /\ blobs' = StoreBlob(blobs, path, calls_ok)
                /\ IF calls_ok /\ ValidUUID(job_id) /\ db_ok
                   THEN /\ jobs' = IF channel_name = "left"
                                   THEN update_job_transcript_paths(
                                            jobs, job_id[1], path, NULL)
                                   ELSE update_job_transcript_paths(
                                            jobs, job_id[1], NULL, path)
                        /\ TaskSucceeds(m, <<path>>, {})
                        /\ UNCHANGED <<exhausted, notifications, notify_errors>>
                   ELSE RetryOrAbort(m,
                            IF ~calls_ok THEN "HTTPError"
                            ELSE IF ~ValidUUID(job_id) THEN "ValueError"
                            ELSE "OperationalError",
                            "Transcription failed",
                            "transcribe_audio_channel")
           /\ UNCHANGED <<sentiment_results, request, answers, infra_faults,
                          settings_valid, last_op, sessions, service_vars>>

\* a database session of a unit: nothing loaded yet
NoSession == [loaded |-> FALSE, found |-> FALSE, row |-> NewJob("", NoTime)]

\* get_job inside update_job_transcript_paths: the SELECT of the row
LoadJob(tbl, id) ==
    IF HasJob(tbl, id)
    THEN [loaded |-> TRUE, found |-> TRUE, row |-> tbl[id]]
    ELSE [loaded |-> TRUE, found |-> FALSE, row |-> NewJob("", NoTime)]

\* mutant: the commit writes the whole row as it was loaded
FlushWholeRow(tbl, id, session, left, right) ==
    IF ~session.found \/ ~HasJob(tbl, id) THEN tbl
    ELSE [tbl EXCEPT ![id] =
            [session.row EXCEPT
               !.left_transcript_path = IF left # NULL THEN left ELSE @,
               !.right_transcript_path = IF right # NULL THEN right ELSE @,
               !.updated_at = Now(tbl)]]

\* the rest of update_job_transcript_paths: the attributes assigned on the
\* loaded row, and db.commit(), whose UPDATE sets the assigned columns on the
\* row as it is in the table then
FlushTranscriptPaths(tbl, id, session, left, right) ==
    IF ~session.found \/ ~HasJob(tbl, id) THEN tbl
    ELSE [tbl EXCEPT
            ![id].left_transcript_path = IF left # NULL THEN left ELSE @,
            ![id].right_transcript_path = IF right # NULL THEN right ELSE @,
            ![id].updated_at = Now(tbl)]

\* transcribe_audio_channel up to the SELECT of update_job_transcript_paths;
\* the worker keeps the message until the task ends
TranscribeLoad ==
    \E m \in queue :
      /\ m.id[1] = "transcribe_audio_channel"
      /\ ArgsOk(m)
      /\ ~sessions[m.id].loaded
      /\ LET job_id == m.args[1]
             path   == TranscriptPath(job_id[1], m.args[3][1])
         IN
         \E responses \in AuthAnswers, rest_ok \in BOOLEAN :
           LET auth     == get_auth_token(responses)
               calls_ok == ~auth.raised /\ rest_ok
           IN
           /\ auth_log' = auth
           /\ blobs' = StoreBlob(blobs, path, calls_ok)
           /\ faulted' = IF calls_ok THEN faulted ELSE faulted \cup {m.id}
           /\ IF calls_ok /\ ValidUUID(job_id)
              THEN /\ sessions' = [sessions EXCEPT
                                     ![m.id] = LoadJob(jobs, job_id[1])]
                   /\ UNCHANGED <<jobs, queue, backend, sent, executions,
                                  delays, exhausted, notifications,
                                  notify_errors>>
              ELSE /\ RetryOrAbort(m,
                          IF calls_ok THEN "ValueError" ELSE "HTTPError",
                          "Transcription failed",
                          "transcribe_audio_channel")
                   /\ UNCHANGED sessions
      /\ UNCHANGED <<sentiment_results, request, answers, infra_faults,
                     settings_valid, last_op, service_vars>>

\* the commit of update_job_transcript_paths and `return transcript_path`
TranscribeFlush ==
    \E m \in queue :
      /\ m.id[1] = "transcribe_audio_channel"
      /\ sessions[m.id].loaded
      /\ LET job_id       == m.args[1]
             channel_name == m.args[3][1]
             path         == TranscriptPath(job_id[1], channel_name)
         IN
         /\ jobs' = IF channel_name = "left"
                    THEN FlushTranscriptPaths(jobs, job_id[1], sessions[m.id],
                                              path, NULL)
                    ELSE FlushTranscriptPaths(jobs, job_id[1], sessions[m.id],
                                              NULL, path)
         /\ TaskSucceeds(m, <<path>>, {})
      /\ UNCHANGED <<sentiment_results, request, exhausted, faulted, answers,
                     notifications, notify_errors, infra_faults, settings_valid,
                     auth_log, last_op, sessions, blobs, service_vars>>

process_transcriptions ==
    \E m \in queue :
      /\ m.id[1] = "process_transcriptions"
      /\ IF ~ArgsOk(m) THEN BadCall(m)
         ELSE LET transcript_paths == m.args[1]
                  job_id           == m.args[2]
              IN
           /\ \E ok \in InfraOutcomes :
                IF Len(transcript_paths) >= 2 /\ ValidUUID(job_id) /\ ok
                THEN LET left_path  == <<transcript_paths[1]>>
                         right_path == <<transcript_paths[2]>>
                         filename   == IF HasJob(jobs, job_id[1])
                                       THEN <<jobs[job_id[1]].filename>>
                                       ELSE <<"unknown">>
                     IN /\ TaskSucceeds(m, None, ApplyAsync(ok, ChainApplyAsync(
                              <<Sig("analyze_competitors", "",
                                    <<job_id, left_path, right_path>>),
                                Sig("process_sentiment_analysis", "",
                                    <<job_id, left_path, right_path, filename>>)>>)))
                        /\ UNCHANGED <<jobs, notifications, notify_errors>>
                ELSE FailJob(m, job_id, "Post-transcription processing failed",
                             "process_transcriptions")
           /\ UNCHANGED <<sentiment_results, request, exhausted, faulted,
                          answers, infra_faults, settings_valid, auth_log,
                          last_op, sessions, blobs, service_vars>>

analyze_competitors ==
    \E m \in queue :
      /\ m.id[1] = "analyze_competitors"
      /\ IF ~ArgsOk(m) THEN BadCall(m)
         ELSE LET job_id == m.args[1] IN
           /\ \E calls_ok \in BOOLEAN, competitors_found \in CompetitorLists :
                \* calls_ok: both transcript downloads and /find-competitors
                \* answered; a failed call has no answer to choose
                /\ calls_ok \/ competitors_found = EmptyList
                /\ faulted' = IF calls_ok THEN faulted ELSE faulted \cup {m.id}
                /\ IF calls_ok /\ ValidUUID(job_id)
                   THEN /\ jobs' = update_job_competitors(jobs, job_id[1],
                                                          competitors_found)
                        /\ TaskSucceeds(m, competitors_found, {})
                        /\ UNCHANGED <<exhausted, notifications, notify_errors>>
                   ELSE RetryOrAbort(m,
                            IF calls_ok THEN "ValueError" ELSE "HTTPError",
                            "Competitor analysis failed",
                            "analyze_competitors")
           /\ UNCHANGED <<sentiment_results, request, answers, infra_faults,
                          settings_valid, auth_log, last_op, sessions,
                          blobs, service_vars>>

\* the signatures process_sentiment_analysis chains: one scoring unit per
\* competitor, in list order, then finalize_job.s(job_id)
SentimentWorkflow(competitors_found, job_id, left_path, right_path, filename) ==
    [i \in 1..Len(competitors_found) |->
        Sig("analyze_sentiment_for_competitor", competitors_found[i],
            <<job_id, <<competitors_found[i]>>, left_path, right_path, filename>>)]
    \o <<Sig("finalize_job", "", <<job_id>>)>>

\* mutant: the scoring units are published together, as a group
DispatchSentimentGroup(competitors_found, job_id, left_path, right_path, filename) ==
    LET sigs == SentimentWorkflow(competitors_found, job_id,
                                  left_path, right_path, filename)
    IN  {Message(sigs[i], <<>>, <<>>) : i \in 1..Len(competitors_found)}

\* mutant: no separate branch for an empty list, the chain is always built
DispatchSentimentAlwaysChain(competitors_found, job_id, left_path, right_path, filename) ==
    ChainApplyAsync(SentimentWorkflow(competitors_found, job_id,
                                      left_path, right_path, filename))

\* what process_sentiment_analysis publishes
DispatchSentiment(competitors_found, job_id, left_path, right_path, filename) ==
    IF Len(competitors_found) > 0
    THEN ChainApplyAsync(SentimentWorkflow(competitors_found, job_id,
                                           left_path, right_path, filename))
    ELSE {Message(Sig("finalize_job", "", <<job_id, EmptyList>>), <<>>, <<>>)}

process_sentiment_analysis ==
    \E m \in queue :
      /\ m.id[1] = "process_sentiment_analysis"
      /\ IF ~ArgsOk(m) THEN BadCall(m)
         ELSE LET competitors_found == m.args[1]
                  job_id            == m.args[2]
              IN
           /\ \E ok \in InfraOutcomes :
                IF ok
                THEN /\ TaskSucceeds(m, None, ApplyAsync(ok,
                           DispatchSentiment(competitors_found, job_id,
                                             m.args[3], m.args[4], m.args[5])))
                     /\ UNCHANGED <<jobs, notifications, notify_errors>>
                ELSE FailJob(m, job_id,
                             "Sentiment processing coordination failed",
                             "process_sentiment_analysis")
           /\ UNCHANGED <<sentiment_results, request, exhausted, faulted,
                          answers, infra_faults, settings_valid, auth_log,
                          last_op, sessions, blobs, service_vars>>

\* answers of the sentiment service: a list with segments, or an empty list
SentimentAnswers == {"segments", "empty"}

analyze_sentiment_for_competitor ==
    \E m \in queue :
      /\ m.id[1] = "analyze_sentiment_for_competitor"
      /\ IF ~ArgsOk(m) THEN BadCall(m)
         ELSE LET job_id          == m.args[1]
                  competitor_name == m.args[2][1]
              IN
           /\ \E answer \in SentimentAnswers \cup {"HTTPError"} :
                LET sentiment_result ==
                        SentimentDict(competitor_name,
                            IF answer = "segments" THEN "positive" ELSE "neutral")
                    error_result == SentimentDict(competitor_name, "error")
                    saved == create_sentiment_result(sentiment_results,
                                 job_id[1], competitor_name, sentiment_result)
                    exc == IF answer = "HTTPError" THEN "HTTPError"
                           ELSE IF ~ValidUUID(job_id) THEN "ValueError"
                           ELSE "TypeError"
                    raised == RetryRaises(m, exc)
                    \* the table as the attempt leaves it when it fails
                    failed == IF answer # "HTTPError" /\ ValidUUID(job_id)
                              THEN saved.rows ELSE sentiment_results
                    saved_error == create_sentiment_result(failed,
                                       job_id[1], competitor_name, error_result)
                IN
                /\ faulted' = IF answer = "HTTPError"
                              THEN faulted \cup {m.id} ELSE faulted
                /\ answers' = IF answer = "HTTPError" THEN answers
                              ELSE answers \cup {<<m.id, answer>>}
                /\ IF answer # "HTTPError" /\ ValidUUID(job_id) /\ ~saved.raised
                   THEN /\ sentiment_results' = saved.rows
                        /\ TaskSucceeds(m, sentiment_result, {})
                        /\ UNCHANGED exhausted
                   ELSE /\ exhausted' = IF raised = "Retry" THEN exhausted
                                        ELSE exhausted \cup {m.id}
                        /\ IF raised = "Retry"
                           THEN TaskRetries(m) /\ sentiment_results' = failed
                           ELSE IF /\ raised = "MaxRetriesExceededError"
                                   /\ ValidUUID(job_id)
                                   /\ ~saved_error.raised
                           THEN \* the error row is saved, the unit returns it
                                /\ sentiment_results' = saved_error.rows
                                /\ TaskSucceeds(m, error_result, {})
                           ELSE TaskFails(m) /\ sentiment_results' = failed
           /\ UNCHANGED <<jobs, request, notifications, notify_errors,
                          infra_faults, settings_valid, auth_log, last_op,
                          sessions, blobs, service_vars>>

finalize_job ==
    \E m \in queue :
      /\ m.id[1] = "finalize_job"
      /\ IF ~ArgsOk(m) THEN BadCall(m)
         ELSE LET job_id == m.args[1] IN
           /\ \E ok \in InfraOutcomes :
                IF ValidUUID(job_id) /\ ok
                THEN /\ jobs' = update_job_status(jobs, job_id[1],
                                                  "COMPLETED", NULL)
                     /\ TaskSucceeds(m, None, {})
                     /\ UNCHANGED <<notifications, notify_errors>>
                ELSE FailJob(m, job_id, "Finalization failed", "finalize_job")
           /\ UNCHANGED <<sentiment_results, request, exhausted, faulted,
                          answers, infra_faults, settings_valid, auth_log,
                          last_op, sessions, blobs, service_vars>>

---------------------------------------------------------------------------
(* Job Store called directly: the write functions of crud.py applied in any
   order, with any arguments, to a table that holds the job or not *)

\* times a table may hold before the calls stop
MaxClock == 4

\* a well-formed uuid that is no row of the table
UnknownJobId == "job-2"

StoreIds == {JobId, UnknownJobId}

StoreErrorMessages == {NULL, "boom"}

NoOp == [op |-> "none", id |-> NULL, status |-> NULL, error_message |-> NULL,
         existed |-> FALSE, outcome |-> "none", wrote |-> FALSE,
         channel |-> NULL, before |-> NULL]

\* the record of one call: whether the row existed, how the call ended
\* ("row", "None" or "raised") and whether the table changed; for a write of
\* a transcript path, the channel and the path the row held before
StoreCall(op, id, status, error_message, outcome, wrote) ==
    [op |-> op, id |-> id, status |-> status, error_message |-> error_message,
     existed |-> HasJob(jobs, id), outcome |-> outcome, wrote |-> wrote,
     channel |-> NULL, before |-> NULL]

pipeline_vars == <<request, queue, backend, sent, exhausted, faulted, answers,
                   notifications, infra_faults, executions, delays, auth_log,
                   notify_errors, settings_valid, sessions, blobs,
                   service_vars>>

StoreCreateJob ==
    /\ ~HasJob(jobs, JobId)
    /\ jobs' = create_job(jobs, JobId, "call.mp3")
    /\ last_op' = StoreCall("create_job", JobId, NULL, NULL, "row", TRUE)
    /\ UNCHANGED <<sentiment_results, pipeline_vars>>

StoreUpdateJobStatus ==
    \E id \in StoreIds, status \in JobStatus, error_message \in StoreErrorMessages :
      LET new == update_job_status(jobs, id, status, error_message) IN
      /\ Now(jobs) <= MaxClock
      /\ jobs' = new
      /\ last_op' = StoreCall("update_job_status", id, status, error_message,
                              UpdateReturns(jobs, id), new # jobs)
      /\ UNCHANGED <<sentiment_results, pipeline_vars>>

StoreUpdateJobChannelUrls ==
    \E id \in StoreIds :
      LET new == update_job_channel_urls(jobs, id, "http://split/left.mp3",
                                         "http://split/right.mp3") IN
      /\ Now(jobs) <= MaxClock
      /\ jobs' = new
      /\ last_op' = StoreCall("update_job_channel_urls", id, NULL, NULL,
                              UpdateReturns(jobs, id), new # jobs)
      /\ UNCHANGED <<sentiment_results, pipeline_vars>>

StoreUpdateJobTranscriptPaths ==
    \E id \in StoreIds, channel_name \in Channels :
      LET path == TranscriptPath(id, channel_name)
          new  == IF channel_name = "left"
                  THEN update_job_transcript_paths(jobs, id, path, NULL)
                  ELSE update_job_transcript_paths(jobs, id, NULL, path) IN
      /\ Now(jobs) <= MaxClock
      /\ jobs' = new
      /\ last_op' = [StoreCall("update_job_transcript_paths", id, NULL, NULL,
                               UpdateReturns(jobs, id), new # jobs)
                        EXCEPT !.channel = channel_name,
                               !.before = IF ~HasJob(jobs, id) THEN NULL
                                          ELSE IF channel_name = "left"
                                          THEN jobs[id].left_transcript_path
                                          ELSE jobs[id].right_transcript_path]
      /\ UNCHANGED <<sentiment_results, pipeline_vars>>

StoreUpdateJobCompetitors ==
    \E id \in StoreIds, competitors \in {EmptyList, <<CompetitorNames[1]>>} :
      LET new == update_job_competitors(jobs, id, competitors) IN
      /\ Now(jobs) <= MaxClock
      /\ jobs' = new
      /\ last_op' = StoreCall("update_job_competitors", id, NULL, NULL,
                              UpdateReturns(jobs, id), new # jobs)
      /\ UNCHANGED <<sentiment_results, pipeline_vars>>

StoreCreateSentimentResult ==
    \E id \in StoreIds :
      LET competitor_name == CompetitorNames[1]
          saved == create_sentiment_result(sentiment_results, id, competitor_name,
                       SentimentDict(competitor_name, "positive")) IN
      /\ sentiment_results' = saved.rows
      /\ last_op' = StoreCall("create_sentiment_result", id, NULL, NULL,
                              IF saved.raised THEN "raised" ELSE "row",
                              saved.rows # sentiment_results)
      /\ UNCHANGED <<jobs, pipeline_vars>>

\* a jobs table with no row
EmptyJobs == [id \in {} |-> NewJob("", NoTime)]

\* response.lower() for the answers typed at the prompt
Lower(response) ==
    IF response \in {"yes", "Yes", "YES"} THEN "yes"
    ELSE IF response \in {"no", "No"} THEN "no"
    ELSE response

Responses == {"yes", "YES", "no", ""}

\* db.query(models.SentimentResult).delete(): every row of the table
DeleteAllSentimentResults(db) == [db EXCEPT !.sentiment_results = <<>>]

\* mutant: the jobs are left in place
DeleteAllJobsKept(db) == db

\* db.query(models.Job).delete(): every job, and through the foreign key
\* (ondelete="CASCADE") the sentiment rows of the deleted jobs
DeleteAllJobs(db) ==
    [jobs |-> EmptyJobs,
     sentiment_results |->
        SelectSeq(db.sentiment_results, LAMBDA row : row.job_id \in DOMAIN EmptyJobs)]

\* the statements of clear_database inside its transaction: the tables as
\* the transaction sees them before, between and after the two deletes
ClearTransaction(db) ==
    <<db, DeleteAllSentimentResults(db),
      DeleteAllJobs(DeleteAllSentimentResults(db))>>

\* clear_database.py: ask, delete both tables, commit; anything but "yes"
\* cancels, an exception rolls back
clear_database ==
    \E response \in Responses, ok \in InfraOutcomes :
      LET tx == ClearTransaction([jobs |-> jobs,
                                  sentiment_results |-> sentiment_results])
          outcome == IF Lower(response) # "yes" THEN "cancelled"
                     ELSE IF ok THEN "committed" ELSE "rolled back"
          final == IF outcome = "committed" THEN tx[3] ELSE tx[1]
      IN  /\ jobs' = final.jobs
          /\ sentiment_results' = final.sentiment_results
          /\ last_op' = [op |-> "clear_database", id |-> NULL, status |-> NULL,
                         error_message |-> NULL,
                         existed |-> sentiment_results # <<>>,
                         outcome |-> outcome,
                         wrote |-> final # tx[1],
                         channel |-> NULL, before |-> NULL]
          /\ UNCHANGED pipeline_vars

\* rows a sentiment_results table may hold
MaxRows == 2

\* contents of the database clear_database may be run against: no job, or
\* one job with up to MaxRows sentiment rows
StoredJobs == {EmptyJobs, create_job(EmptyJobs, JobId, "call.mp3")}

StoredRows(tbl) ==
    IF ~HasJob(tbl, JobId) THEN {<<>>}
    ELSE UNION {[1..n -> {[job_id          |-> JobId,
                           competitor_name |-> CompetitorNames[1],
                           sentiment       |-> sentiment,
                           result_json     |-> SentimentDict(CompetitorNames[1],
                                                             sentiment)] :
                            sentiment \in {"positive", "negative"}}] :
                n \in 0..MaxRows}

NextClear ==
    \/ StoreCreateJob
    \/ StoreUpdateJobStatus
    \/ StoreUpdateJobChannelUrls
    \/ StoreUpdateJobTranscriptPaths
    \/ StoreUpdateJobCompetitors
    \/ StoreCreateSentimentResult
    \/ clear_database

NextStore ==
    \/ StoreCreateJob
    \/ StoreUpdateJobStatus
    \/ StoreUpdateJobChannelUrls
    \/ StoreUpdateJobTranscriptPaths
    \/ StoreUpdateJobCompetitors
    \/ StoreCreateSentimentResult

---------------------------------------------------------------------------
(* Notification service: notification_service/app/main.py, config.py *)

\* Settings defaults
NOTIFICATION_MAX_RETRIES == 3

NOTIFICATION_RETRY_DELAY == 5

\* values NOTIFICATION_MAX_RETRIES may be set to (an int of the environment)
MaxRetriesSetting == 3

\* `if len(notification_history) > 1000`
HistoryLimit == 1000

\* /notify requests of one run
MaxNotifications == 1002

DefaultSettings ==
    [NOTIFICATION_MAX_RETRIES |-> NOTIFICATION_MAX_RETRIES,
     NOTIFICATION_RETRY_DELAY |-> NOTIFICATION_RETRY_DELAY,
     ENABLE_EMAIL |-> TRUE, ENABLE_WEBHOOK |-> TRUE, ENABLE_SLACK |-> FALSE]

\* what one call of a notifier's send does: it returns success True, it
\* returns success False, or it raises
SendOutcomes == {"sent", "refused", "raised"}

\* `if attempt < settings.NOTIFICATION_MAX_RETRIES - 1`
SleepsAfter(attempt, max) == attempt < max - 1

\* the loop of _send_with_retry from `attempt` on (0-based); outcomes[k] is
\* what attempt k - 1 meets.  When range() is empty the body never ran and
\* `return result` raises UnboundLocalError
RECURSIVE SendLoop(_, _, _, _)
SendLoop(outcomes, attempt, sleeps, cfg) ==
    IF attempt >= cfg.NOTIFICATION_MAX_RETRIES
    THEN [attempts |-> attempt, seen |-> SubSeq(outcomes, 1, attempt),
          sleeps |-> sleeps, raised |-> attempt = 0, success |-> FALSE]
    ELSE IF outcomes[attempt + 1] = "sent"
    THEN [attempts |-> attempt + 1, seen |-> SubSeq(outcomes, 1, attempt + 1),
          sleeps |-> sleeps, raised |-> FALSE, success |-> TRUE]
    ELSE SendLoop(outcomes, attempt + 1,
                  IF SleepsAfter(attempt, cfg.NOTIFICATION_MAX_RETRIES)
                  THEN Append(sleeps, cfg.NOTIFICATION_RETRY_DELAY * (2 ^ attempt))
                  ELSE sleeps,
                  cfg)

\* _send_with_retry(channel, request)
send_with_retry(outcomes, cfg) == SendLoop(outcomes, 0, <<>>, cfg)

\* the channels of a request: those it names, or all enabled ones when it
\* names none
UseChannels(channels, cfg) ==
    IF channels # <<>> THEN channels
    ELSE (IF cfg.ENABLE_EMAIL THEN <<"email">> ELSE <<>>)
         \o (IF cfg.ENABLE_WEBHOOK THEN <<"webhook">> ELSE <<>>)
         \o (IF cfg.ENABLE_SLACK THEN <<"slack">> ELSE <<>>)

\* request.channels of the requests sent
RequestChannels == {<<>>, <<"email">>, <<"webhook", "email">>}

\* mutant: the newest entry is dropped
KeepLastDropsNewest(history) ==
    IF Len(history) > HistoryLimit
    THEN SubSeq(history, 1, Len(history) - 1) ELSE history

\* `if len(notification_history) > 1000: notification_history.pop(0)`
KeepLast(history) ==
    IF Len(history) > HistoryLimit THEN Tail(history) ELSE history

NoRequests == [pending |-> 0, handled |-> 0]

\* POST /notify: one send with retries per channel, in order, then the
\* history entry (only its id is kept here); an exception leaving
\* _send_with_retry ends the request before the history is touched
notify ==
    /\ requests.pending > 0
    /\ \E channels \in RequestChannels :
         LET use_channels == UseChannels(channels, service_settings)
             n == service_settings.NOTIFICATION_MAX_RETRIES
         IN
         \E outcomes \in [1..Len(use_channels) -> [1..n -> SendOutcomes]] :
           LET sends == [i \in 1..Len(use_channels) |->
                           send_with_retry(outcomes[i], service_settings)]
               \* the sends made: up to and including the first that raised
               made == IF \E i \in 1..Len(sends) : sends[i].raised
                       THEN SubSeq(sends, 1,
                                CHOOSE i \in 1..Len(sends) :
                                   /\ sends[i].raised
                                   /\ \A k \in 1..(i - 1) : ~sends[k].raised)
                       ELSE sends
               failed == \E i \in 1..Len(made) : made[i].raised
           IN
           /\ send_log' = made
           /\ notification_history' =
                 IF failed THEN notification_history
                 ELSE KeepLast(Append(notification_history,
                                      [id |-> requests.handled + 1]))
           /\ requests' = [pending |-> requests.pending - 1,
                           handled |-> requests.handled + 1]
    /\ UNCHANGED <<jobs, sentiment_results, request, queue, backend, sent,
                   exhausted, faulted, answers, notifications, infra_faults,
                   executions, delays, auth_log, notify_errors, last_op,
                   settings_valid, sessions, blobs, service_settings>>

NextService == notify

---------------------------------------------------------------------------
(* Specifications *)

InitPipeline ==
    /\ request = NoRequest
    /\ queue = {}
    /\ backend = [u \in Units |-> [state |-> "PENDING", result |-> <<>>]]
    /\ sent = {}
    /\ exhausted = {}
    /\ faulted = {}
    /\ answers = {}
    /\ notifications = {}
    /\ executions = [u \in Units |-> 0]
    /\ delays = [u \in Units |-> <<>>]
    /\ auth_log = NoAuth
    /\ notify_errors = {}
    /\ last_op = NoOp
    /\ sessions = [u \in Units |-> NoSession]
    /\ blobs = {}

\* the notification service before its first request
InitServiceIdle ==
    /\ service_settings = DefaultSettings
    /\ notification_history = <<>>
    /\ requests = NoRequests
    /\ send_log = <<>>

\* an empty database
InitStore ==
    /\ jobs = EmptyJobs
    /\ sentiment_results = <<>>
    /\ InitPipeline
    /\ InitServiceIdle

\* a database with contents
InitClear ==
    /\ jobs \in StoredJobs
    /\ sentiment_results \in StoredRows(jobs)
    /\ InitPipeline
    /\ InitServiceIdle
    /\ infra_faults \in BOOLEAN
    /\ settings_valid = TRUE

\* broker and store available
Init == InitStore /\ infra_faults = FALSE /\ settings_valid = TRUE

\* broker publishes and the store write of finalize may fail
InitFaults == InitStore /\ infra_faults = TRUE /\ settings_valid = TRUE

\* the configured auth credentials are accepted, or they are not
InitAnySettings ==
    InitStore /\ infra_faults = FALSE /\ settings_valid \in BOOLEAN

Worker ==
    \/ process_audio_pipeline
    \/ transcribe_audio_channel
    \/ process_transcriptions
    \/ analyze_competitors
    \/ process_sentiment_analysis
    \/ analyze_sentiment_for_competitor
    \/ finalize_job

Next ==
    \/ upload_audio
    \/ webhook
    \/ SplitAudio
    \/ SetProcessing
    \/ DelayPipeline
    \/ process_audio_pipeline
    \/ transcribe_audio_channel
    \/ process_transcriptions
    \/ analyze_competitors
    \/ process_sentiment_analysis
    \/ analyze_sentiment_for_competitor
    \/ finalize_job

Spec == Init /\ [][Next]_vars

\* the pipeline up to the dispatch of detection, with the store write of a
\* transcription unit split at its SELECT
NextTranscripts ==
    \/ upload_audio
    \/ webhook
    \/ SplitAudio
    \/ SetProcessing
    \/ DelayPipeline
    \/ process_audio_pipeline
    \/ TranscribeLoad
    \/ TranscribeFlush
    \/ process_transcriptions

SpecTranscripts == Init /\ [][NextTranscripts]_vars

\* the pipeline with credentials the auth service accepts or rejects
SpecSettings == InitAnySettings /\ [][Next]_vars

\* the orchestrator at rest, for the runs of the notification service alone
InitOrchestratorIdle ==
    /\ jobs = EmptyJobs
    /\ sentiment_results = <<>>
    /\ InitPipeline
    /\ infra_faults = FALSE
    /\ settings_valid = TRUE

\* a few requests under any setting of NOTIFICATION_MAX_RETRIES
InitSend ==
    /\ InitOrchestratorIdle
    /\ service_settings \in
          {[DefaultSettings EXCEPT !.NOTIFICATION_MAX_RETRIES = n] :
             n \in 0..MaxRetriesSetting}
    /\ notification_history = <<>>
    /\ requests = [pending |-> 1, handled |-> 0]
    /\ send_log = <<>>

SpecSend == InitSend /\ [][NextService]_vars

\* a long run of requests, one attempt per send
InitHistory ==
    /\ InitOrchestratorIdle
    /\ service_settings = [DefaultSettings EXCEPT !.NOTIFICATION_MAX_RETRIES = 1]
    /\ notification_history = <<>>
    /\ requests = [pending |-> MaxNotifications, handled |-> 0]
    /\ send_log = <<>>

SpecHistory == InitHistory /\ [][NextService]_vars

\* the pipeline up to the dispatch of the scoring units, with clear_database
\* run against its database at any time
NextAdmin ==
    \/ upload_audio
    \/ webhook
    \/ SplitAudio
    \/ SetProcessing
    \/ DelayPipeline
    \/ process_audio_pipeline
    \/ transcribe_audio_channel
    \/ process_transcriptions
    \/ analyze_competitors
    \/ process_sentiment_analysis
    \/ clear_database

SpecAdmin == Init /\ [][NextAdmin]_vars

\* the Job Store under arbitrary calls and runs of clear_database, from a
\* database with contents
SpecClear == InitClear /\ [][NextClear]_vars

\* the Job Store under arbitrary calls
SpecStore == Init /\ [][NextStore]_vars

\* the same with infrastructure faults
SpecFaults == InitFaults /\ [][Next]_vars

\* workers keep taking messages off the queue, handlers run to their end
SpecFair ==
    /\ Init
    /\ [][Next]_vars
    /\ WF_vars(Worker)
    /\ WF_vars(SplitAudio \/ SetProcessing \/ DelayPipeline)

---------------------------------------------------------------------------
(* Properties *)

Created == HasJob(jobs, JobId)

TheJob == jobs[JobId]

Terminal(u) == backend[u].state \in {"SUCCESS", "FAILURE"}

Transcribe(c) == Unit("transcribe_audio_channel", c)

Detect == Unit("analyze_competitors", "")

Score(c) == Unit("analyze_sentiment_for_competitor", c)

Finalize == Unit("finalize_job", "")

ScoreSent == \E c \in Competitors : Score(c) \in sent

\* nothing is left to run: the handler returned and the queue is empty
Quiescent == queue = {} /\ request.pc \in {"done", "error"}

\* every status change of a step is one of `allowed`, and no job row vanishes
StatusStepsWithin(allowed) ==
    \A id \in DOMAIN jobs :
        /\ id \in DOMAIN jobs'
        /\ jobs'[id].status # jobs[id].status
              => <<jobs[id].status, jobs'[id].status>> \in allowed

ClaimedTransitions ==
    {<<"PENDING", "PROCESSING">>, <<"PROCESSING", "COMPLETED">>,
     <<"PROCESSING", "FAILED">>}

\* C1 as stated: a job's status changes only along PENDING -> PROCESSING ->
\* COMPLETED or PENDING -> PROCESSING -> FAILED.
C1_OnlyClaimedTransitions == [][StatusStepsWithin(ClaimedTransitions)]_vars

\* C1 as amended: a job's status changes only along PENDING -> PROCESSING ->
\* COMPLETED, PENDING -> PROCESSING -> FAILED, or PENDING -> FAILED (the
\* upload / webhook handler failing before the job is set to PROCESSING);
\* COMPLETED and FAILED are never left.
C1_StatusTransitions ==
    [][StatusStepsWithin(ClaimedTransitions \cup {<<"PENDING", "FAILED">>})]_vars

\* a job that failed while PENDING: the split never delivered channel urls
C1_Witness ==
    /\ Created
    /\ TheJob.status = "FAILED"
    /\ TheJob.left_channel_url = NULL
    /\ TheJob.error_message = "Audio split service error"

\* C2: a stage is dispatched only after every unit of the stage before it is
\* terminal: detection (and the join task before it) after both
\* transcription units, scoring after detection, finalize after detection
\* and after the scoring unit of every detected competitor.
C2_StageOrder ==
    /\ (Unit("process_transcriptions", "") \in sent \/ Detect \in sent)
          => \A c \in Channels : Terminal(Transcribe(c))
    /\ (Unit("process_sentiment_analysis", "") \in sent \/ ScoreSent)
          => Terminal(Detect)
    /\ Finalize \in sent
          => /\ Terminal(Detect)
             /\ \A i \in 1..Len(backend[Detect].result) :
                   Terminal(Score(backend[Detect].result[i]))

\* a scoring unit was dispatched, after both transcriptions and detection
C2_Witness ==
    /\ ScoreSent
    /\ \A c \in Channels : backend[Transcribe(c)].state = "SUCCESS"
    /\ backend[Detect].state = "SUCCESS"

C4_TranscriptionExhaustedFailsJob ==
    \A c \in Channels :
        Transcribe(c) \in exhausted
           => /\ TheJob.status = "FAILED"
              /\ TheJob.error_message # NULL

\* C5: a detection unit that exhausted its retries leaves the job FAILED
\* with an error message.
C5_DetectionExhaustedFailsJob ==
    Detect \in exhausted
       => /\ TheJob.status = "FAILED"
          /\ TheJob.error_message # NULL

\* C6: once a transcription unit or the detection unit has exhausted its
\* retries, no unit of a later stage has been or is ever dispatched, and the
\* job has no SentimentResult row.
C6_NoLaterStageAfterExhaustion ==
    /\ (\E c \in Channels : Transcribe(c) \in exhausted)
          => /\ Unit("process_transcriptions", "") \notin sent
             /\ Detect \notin sent
    /\ ((\E c \in Channels : Transcribe(c) \in exhausted) \/ Detect \in exhausted)
          => /\ Unit("process_sentiment_analysis", "") \notin sent
             /\ ~ScoreSent
             /\ Finalize \notin sent
             /\ sentiment_results = <<>>

\* one channel exhausted its retries, the other one succeeded
C6_Witness ==
    /\ Transcribe("left") \in exhausted
    /\ backend[Transcribe("right")].state = "SUCCESS"

\* rows of competitor X with sentiment "error"
ErrorRows(X) ==
    {i \in DOMAIN sentiment_results :
        /\ sentiment_results[i].competitor_name = X
        /\ sentiment_results[i].sentiment = "error"}

\* C7: if the scoring unit of one competitor is the only unit that exhausts
\* its retries, the units of the competitors after it and finalize are still
\* dispatched and the job ends COMPLETED.
C7_ScoringFailureTolerated ==
    \A X \in Competitors :
        (Quiescent /\ exhausted = {Score(X)} /\ faulted \subseteq {Score(X)})
           => /\ TheJob.status = "COMPLETED"
              /\ Finalize \in sent
              /\ \A i \in 1..Len(backend[Detect].result) :
                    Score(backend[Detect].result[i]) \in sent

\* C8: if the scoring unit of competitor X exhausted its retries, the job
\* has exactly one error row for X, and none for a competitor whose unit did
\* not.
C8_OneErrorRow ==
    \A X \in Competitors :
        /\ Score(X) \in exhausted => Cardinality(ErrorRows(X)) = 1
        /\ Score(X) \notin exhausted => ErrorRows(X) = {}

\* C9: when no external call failed, detection returned a non-empty list and
\* the sentiment service answered every scoring call with segments, the job
\* ends COMPLETED with competitors_found the detected list and one row per
\* competitor.
C9_HappyPathCompletes ==
    LET cf == backend[Detect].result IN
    ( /\ Quiescent
      /\ request.pc = "done"
      /\ faulted = {}
      /\ backend[Detect].state = "SUCCESS"
      /\ Len(cf) > 0
      /\ \A a \in answers : a[2] = "segments" )
       => /\ TheJob.status = "COMPLETED"
          /\ TheJob.competitors_found = cf
          /\ Len(sentiment_results) = Len(cf)
          /\ \A i \in 1..Len(cf) :
                Cardinality({k \in DOMAIN sentiment_results :
                    sentiment_results[k].competitor_name = cf[i]}) = 1

DetectedNone == backend[Detect].state = "SUCCESS" /\ backend[Detect].result = EmptyList

\* C10: when detection returns an empty list, no scoring unit is dispatched,
\* finalize is dispatched directly with (job_id, []), and the job eventually
\* is COMPLETED with no SentimentResult row.
C10_EmptyDetectionCompletes ==
    /\ [](DetectedNone =>
            /\ ~ScoreSent
            /\ sentiment_results = <<>>
            /\ \A m \in queue :
                  m.id = Finalize => m.args = <<<<JobId>>, EmptyList>> /\ m.chain = <<>>)
    /\ (DetectedNone ~>
            /\ Created
            /\ TheJob.status = "COMPLETED"
            /\ Finalize \in sent
            /\ ~ScoreSent
            /\ sentiment_results = <<>>)

\* detection returned nothing and the job is COMPLETED
C10_Witness ==
    /\ DetectedNone
    /\ Created
    /\ TheJob.status = "COMPLETED"
    /\ backend[Finalize].state = "SUCCESS"

\* the units whose task is declared with max_retries and calls self.retry
RetriedUnits ==
    {u \in Units : u[1] \in {"transcribe_audio_channel", "analyze_competitors",
                             "analyze_sentiment_for_competitor"}}

\* C11 as claimed: no retried unit (transcription, detection, scoring) is
\* executed more than 3 times in total, first attempt included
C11_AtMostThreeExecutions ==
    \A u \in RetriedUnits : executions[u] <= 3

\* C11, amended: a retried unit is executed at most max_retries + 1 = 4 times
\* (the first attempt and 3 retries); a unit whose retries are used up was
\* executed exactly that often and is not on the queue again
C11_AtMostFourExecutions ==
    \A u \in RetriedUnits :
       /\ executions[u] <= max_retries + 1
       /\ u \in exhausted =>
             /\ executions[u] = max_retries + 1
             /\ \A m \in queue : m.id # u

C11_Witness ==
    \E u \in RetriedUnits : u \in exhausted /\ executions[u] = max_retries + 1

\* C12 as claimed: the delay before retry number i (from 0) of a stage unit
\* is default_retry_delay * 2^i, that is 60, 120, 240
C12_DelayBase60 ==
    \A u \in RetriedUnits : \A i \in 1..Len(delays[u]) :
       delays[u][i] = default_retry_delay * 2 ^ (i - 1)

\* C12, amended: the delay before retry number i (from 0) of a stage unit
\* is 2^i, that is 1, 2, 4
C12_DelayPowerOfTwo ==
    \A u \in RetriedUnits : \A i \in 1..Len(delays[u]) :
       delays[u][i] = 2 ^ (i - 1)

C12_Witness ==
    \E u \in RetriedUnits : delays[u] = <<1, 2, 4>>

NonDecreasing(s) == \A i \in 1..(Len(s) - 1) : s[i] <= s[i + 1]

\* C13: the retry delays of one unit never decrease from one attempt to the
\* next, and neither do the sleeps of one run of the authentication loop
C13_DelaysNonDecreasing ==
    /\ \A u \in RetriedUnits : NonDecreasing(delays[u])
    /\ NonDecreasing(auth_log.sleeps)

C13_Witness ==
    /\ \E u \in RetriedUnits : Len(delays[u]) >= 2
    /\ Len(auth_log.sleeps) >= 2

\* C14: in every reachable state of the jobs table, completed_at holds a
\* time if and only if the status is COMPLETED
C14_CompletedAtIffCompleted ==
    \A id \in DOMAIN jobs :
       jobs[id].completed_at # NoTime <=> jobs[id].status = "COMPLETED"

C14_Witness ==
    /\ Created
    /\ TheJob.status = "COMPLETED"
    /\ TheJob.completed_at # NoTime

\* C15: in every reachable state of the jobs table, a job that has an
\* error_message has status FAILED
C15_ErrorMessageOnlyIfFailed ==
    \A id \in DOMAIN jobs :
       jobs[id].error_message # NULL => jobs[id].status = "FAILED"

C15_Witness ==
    /\ Created
    /\ TheJob.error_message # NULL
    /\ TheJob.status = "FAILED"
    /\ request.pc = "done"

C17_NotifyFailureContained ==
    \A task \in notifications :
       /\ Created
       /\ TheJob.status = "FAILED"
       /\ TheJob.error_message # NULL
       /\ \A u \in Units :
             u[1] = task =>
                backend[u] = [state |-> "FAILURE", result |-> <<"Exception">>]

C17_Witness ==
    /\ notify_errors # {}
    /\ Created
    /\ TheJob.status = "FAILED"

\* C18: one get_auth_token() makes at most 3 calls; it stops at the first
\* call that answers and returns that call's token; between failed calls it
\* sleeps 1, 2, ... (2 ** attempt); it raises exactly when 3 calls in a row
\* failed; it never returns None
C18_AuthenticateBounded ==
    auth_log.calls > 0 =>
       /\ auth_log.calls <= 3
       /\ \A i \in 1..(auth_log.calls - 1) : ~auth_log.responses[i]
       /\ auth_log.raised <=>
             (auth_log.calls = 3 /\ ~auth_log.responses[auth_log.calls])
       /\ ~auth_log.raised =>
             /\ auth_log.responses[auth_log.calls]
             /\ auth_log.token = AuthToken(auth_log.calls)
       /\ Len(auth_log.sleeps) = auth_log.calls - 1
       /\ \A i \in 1..Len(auth_log.sleeps) : auth_log.sleeps[i] = 2 ^ (i - 1)
       /\ \A i \in 1..(Len(auth_log.sleeps) - 1) :
             auth_log.sleeps[i] < auth_log.sleeps[i + 1]
       /\ auth_log.raised \/ auth_log.token # None

C18_Witness ==
    /\ auth_log.calls = 3
    /\ auth_log.raised
    /\ auth_log.sleeps = <<1, 2>>

\* tables that differ at most in updated_at
SameExceptUpdatedAt(t1, t2) ==
    /\ DOMAIN t1 = DOMAIN t2
    /\ \A id \in DOMAIN t1 :
          [t1[id] EXCEPT !.updated_at = NoTime] = [t2[id] EXCEPT !.updated_at = NoTime]

\* C19 as claimed: update_job_status applied a second time with the same
\* job, status and error_message changes no field but updated_at,
\* completed_at included
C19_SetStatusIdempotent ==
    [][ ( /\ last_op.op = "update_job_status"
          /\ last_op'.op = "update_job_status"
          /\ last_op'.id = last_op.id
          /\ last_op'.status = last_op.status
          /\ last_op'.error_message = last_op.error_message )
        => SameExceptUpdatedAt(jobs, jobs') ]_vars

UpdateOps == {"update_job_status", "update_job_channel_urls",
              "update_job_transcript_paths", "update_job_competitors"}

\* C20 as claimed: every Job Store write called with a job id that does not
\* exist ends in an error
C20_MissingJobIsError ==
    (last_op.op \in UpdateOps \cup {"create_sentiment_result"} /\ ~last_op.existed)
       => last_op.outcome = "raised"

\* C20, amended: called with a job id that does not exist, the four update_*
\* functions write nothing and return None without raising, and
\* create_sentiment_result raises; none of them writes
C20_MissingJobWritesNothing ==
    ~last_op.existed =>
       /\ last_op.op \in UpdateOps =>
             last_op.outcome = "None" /\ ~last_op.wrote
       /\ last_op.op = "create_sentiment_result" =>
             last_op.outcome = "raised" /\ ~last_op.wrote

C20_Witness ==
    /\ last_op.op = "update_job_competitors"
    /\ last_op.id = UnknownJobId
    /\ ~last_op.existed
    /\ Created

Pipeline == Unit("process_audio_pipeline", "")

\* C21: whenever process_audio_pipeline is on the queue for a job created by
\* upload or webhook, and once it was published at all, the job's channel
\* urls are committed; while it waits to start the job is PROCESSING
C21_PipelineAfterProcessing ==
    /\ Pipeline \in sent =>
          /\ Created
          /\ TheJob.left_channel_url # NULL
          /\ TheJob.right_channel_url # NULL
          /\ TheJob.status # "PENDING"
    /\ \A m \in queue :
          m.id = Pipeline =>
             /\ m.args = <<<<JobId>>>>
             /\ TheJob.status = "PROCESSING"

C21_Witness ==
    /\ \E m \in queue : m.id = Pipeline
    /\ Created
    /\ TheJob.status = "PROCESSING"
    /\ request.endpoint = "webhook"

\* C22: in every interleaving of the two transcription units' reads and
\* writes of the job row, a unit that succeeded has its own path stored, the
\* other unit's path is neither overwritten nor lost, and the status and
\* the channel urls are as they were
C22_TranscriptPathsIndependent ==
    \A c \in Channels :
       backend[Transcribe(c)].state = "SUCCESS" =>
          /\ Created
          /\ TheJob.status = "PROCESSING"
          /\ TheJob.left_channel_url # NULL /\ TheJob.right_channel_url # NULL
          /\ c = "left" =>
                TheJob.left_transcript_path = TranscriptPath(JobId, "left")
          /\ c = "right" =>
                TheJob.right_transcript_path = TranscriptPath(JobId, "right")

\* both units succeeded, and each had loaded the row before the other
\* committed
C22_Witness ==
    /\ backend[Transcribe("left")].state = "SUCCESS"
    /\ backend[Transcribe("right")].state = "SUCCESS"
    /\ sessions[Transcribe("left")].row.right_transcript_path = NULL
    /\ sessions[Transcribe("right")].row.left_transcript_path = NULL

\* the rows of sentiment_results inserted for a competitor
RowsOf(c) ==
    {i \in 1..Len(sentiment_results) : sentiment_results[i].competitor_name = c}

\* C23 as claimed: a scoring unit whose ScoreSentiment call answered has
\* inserted one row per returned segment when it ends: at least one row when
\* segments were returned, no row when the answer was the empty list
C23_OneRowPerSegment ==
    \A c \in Competitors :
       Terminal(Score(c)) =>
          /\ <<Score(c), "segments">> \in answers => RowsOf(c) # {}
          /\ (/\ <<Score(c), "empty">> \in answers
              /\ <<Score(c), "segments">> \notin answers) => RowsOf(c) = {}

DB == [jobs |-> jobs, sentiment_results |-> sentiment_results]

IsPrefix(s, t) == Len(s) <= Len(t) /\ s = SubSeq(t, 1, Len(s))

C25_TerminalFailureRecordedAndNotified ==
    \A u \in DOMAIN backend :
       backend[u].state = "FAILURE" =>
          /\ u[1] \in notifications
          /\ IF u[1] = "analyze_sentiment_for_competitor"
             THEN ErrorRows(u[2]) # {}
             ELSE Created /\ TheJob.status = "FAILED"

\* C26 as claimed: with credentials the authentication service rejects, a
\* transcription unit is executed once, is not retried and is terminal after
\* that execution.
C26_ConfigFailureNotRetried ==
    ~settings_valid =>
       \A c \in Channels :
          executions[Transcribe(c)] >= 1 =>
             /\ executions[Transcribe(c)] = 1
             /\ delays[Transcribe(c)] = <<>>
             /\ Terminal(Transcribe(c))

\* C26, amended: with such credentials a transcription unit never succeeds,
\* and when it is terminal it has been executed max_retries + 1 times, with
\* the countdowns of every other failure in between.
C26_ConfigFailureRetried ==
    ~settings_valid =>
       \A c \in Channels :
          /\ backend[Transcribe(c)].state # "SUCCESS"
          /\ Terminal(Transcribe(c)) =>
                /\ executions[Transcribe(c)] = max_retries + 1
                /\ delays[Transcribe(c)] = <<1, 2, 4>>
                /\ Transcribe(c) \in exhausted

C26_Witness ==
    /\ ~settings_valid
    /\ Terminal(Transcribe("left"))
    /\ executions[Transcribe("left")] = max_retries + 1
    /\ auth_log.raised
    /\ auth_log.calls = auth_max_retries

LeftUrl == "http://split/left.mp3"

RightUrl == "http://split/right.mp3"

\* the job fields the stage units work with
JobFieldValues ==
    {<<LeftUrl>>, <<RightUrl>>, <<"call.mp3">>, <<"unknown">>,
     <<TranscriptPath(JobId, "left")>>, <<TranscriptPath(JobId, "right")>>}

StageTasks ==
    {"transcribe_audio_channel", "analyze_competitors",
     "analyze_sentiment_for_competitor"}

\* C27 as claimed: no message of a stage unit carries a job field captured
\* when the unit was dispatched (the unit is given the job id and reads the
\* rest from the Job Store when it executes).
C27_NoJobFieldInMessages ==
    \A m \in queue :
       m.id[1] \in StageTasks =>
          \A i \in DOMAIN m.args : m.args[i] \notin JobFieldValues

\* C27, amended: the message of a stage unit carries the job fields the
\* unit works with, as they were when it was dispatched, whatever the Job
\* Store holds by the time the unit executes: a transcription unit its
\* channel url, the detection unit both transcript paths, a scoring unit
\* both transcript paths and the filename.
C27_MessagesCarryDispatchedFields ==
    \A m \in queue :
       /\ m.id[1] = "transcribe_audio_channel" =>
             m.args = <<<<JobId>>,
                        IF m.id[2] = "left" THEN <<LeftUrl>> ELSE <<RightUrl>>,
                        <<m.id[2]>>>>
       /\ m.id[1] = "analyze_competitors" =>
             m.args = <<<<JobId>>, <<TranscriptPath(JobId, "left")>>,
                        <<TranscriptPath(JobId, "right")>>>>
       /\ m.id[1] = "analyze_sentiment_for_competitor" =>
             /\ Len(m.args) >= 5
             /\ SubSeq(m.args, Len(m.args) - 2, Len(m.args)) \in
                   {<<<<TranscriptPath(JobId, "left")>>,
                      <<TranscriptPath(JobId, "right")>>, filename>> :
                    filename \in {<<"call.mp3">>, <<"unknown">>}}

C27_Witness ==
    /\ ~Created
    /\ last_op.op = "clear_database"
    /\ \E m \in queue : m.id = Transcribe("left") /\ m.args[2] = <<LeftUrl>>
    /\ \E m \in queue : m.id = Transcribe("right") /\ m.retries > 0

\* C28: every job for which the pipeline was dispatched eventually leaves
\* PROCESSING: it is COMPLETED or FAILED.
C28_DispatchedJobTerminates ==
    (Pipeline \in sent) ~>
        (Created /\ TheJob.status \in {"COMPLETED", "FAILED"})

\* C29: a COMPLETED job has both transcript paths and competitors_found
\* set, and the scoring unit of every competitor in competitors_found has
\* reached a terminal outcome.
C29_CompletedJobIsWhole ==
    \A id \in DOMAIN jobs :
       jobs[id].status = "COMPLETED" =>
          /\ jobs[id].left_transcript_path = TranscriptPath(id, "left")
          /\ jobs[id].right_transcript_path = TranscriptPath(id, "right")
          /\ jobs[id].competitors_found # NullList
          /\ jobs[id].competitors_found \in CompetitorLists
          /\ \A i \in DOMAIN jobs[id].competitors_found :
                Terminal(Score(jobs[id].competitors_found[i]))

C29_Witness ==
    /\ Created
    /\ TheJob.status = "COMPLETED"
    /\ TheJob.competitors_found = backend[Detect].result
    /\ backend[Transcribe("left")].state = "SUCCESS"
    /\ backend[Transcribe("right")].state = "SUCCESS"
    /\ delays[Detect] # <<>>

Join == Unit("process_transcriptions", "")

\* C30: the join is given the transcript paths in the order (left, right),
\* and the detection unit it dispatches is given the left channel's path as
\* left_path and the right channel's as right_path, whichever transcription
\* unit returned first and however often either was retried.
C30_JoinKeepsChannelOrder ==
    \A m \in queue :
       /\ m.id = Join =>
             m.args = <<<<TranscriptPath(JobId, "left"),
                          TranscriptPath(JobId, "right")>>, <<JobId>>>>
       /\ m.id = Detect =>
             /\ m.args[2] = <<TranscriptPath(JobId, "left")>>
             /\ m.args[3] = <<TranscriptPath(JobId, "right")>>
             /\ m.chain[1].args[2] = m.args[2]
             /\ m.chain[1].args[3] = m.args[3]

\* detection is dispatched after the right unit committed before the left
\* one loaded the job, the left one having been retried
C30_Witness ==
    /\ \E m \in queue : m.id = Detect
    /\ sessions[Transcribe("left")].row.right_transcript_path # NULL
    /\ delays[Transcribe("left")] # <<>>
    /\ delays[Transcribe("right")] = <<>>

PathOf(row, c) ==
    IF c = "left" THEN row.left_transcript_path ELSE row.right_transcript_path

\* C32: the store write of a transcription unit executed again for the
\* same job and channel records the same path and changes no job field
\* but updated_at.
C32_TranscriptWriteIdempotent ==
    [][ ( /\ last_op'.op = "update_job_transcript_paths"
          /\ last_op'.existed
          /\ jobs' # jobs
          /\ last_op'.before # NULL )
        => /\ SameExceptUpdatedAt(jobs, jobs')
           /\ PathOf(jobs'[last_op'.id], last_op'.channel) =
                 TranscriptPath(last_op'.id, last_op'.channel)
           /\ last_op'.before = TranscriptPath(last_op'.id, last_op'.channel)
      ]_vars

\* the left write has run on a row that already held both paths
C32_Witness ==
    /\ last_op.op = "update_job_transcript_paths"
    /\ last_op.channel = "left"
    /\ last_op.before = TranscriptPath(JobId, "left")
    /\ last_op.wrote
    /\ Created
    /\ TheJob.left_transcript_path = TranscriptPath(JobId, "left")
    /\ TheJob.right_transcript_path = TranscriptPath(JobId, "right")

\* a unit was sent back to the queue in this step: a failed, non-final
\* attempt
Retried(u) == Len(delays'[u]) > Len(delays[u])

C34_UnknownJobFailsQuietly ==
    backend[Pipeline].state = "FAILURE" =>
       /\ backend[Pipeline].result = <<"Exception">>
       /\ jobs = EmptyJobs
       /\ notifications = {}
       /\ notify_errors = {}
       /\ sent = {Pipeline}
       /\ queue = {}

C34_Witness ==
    /\ backend[Pipeline].state = "FAILURE"
    /\ executions[Pipeline] = 1
    /\ last_op.op = "clear_database"
    /\ last_op.outcome = "committed"
    /\ ~Created

\* the waits after the first k failed attempts of a send
Backoff(k) == [i \in 1..k |-> service_settings.NOTIFICATION_RETRY_DELAY * (2 ^ (i - 1))]

\* C35: a send makes at most NOTIFICATION_MAX_RETRIES attempts, stops at
\* the first attempt that succeeded, has waited retry_delay * 2^attempt
\* after each failed attempt but the last possible one, and returns a result
\* instead of raising.
C35_SendWithRetryBounded ==
    \A i \in DOMAIN send_log :
       LET send == send_log[i]
           max  == service_settings.NOTIFICATION_MAX_RETRIES
       IN  /\ send.attempts <= max
           /\ \A k \in 1..(send.attempts - 1) : send.seen[k] # "sent"
           /\ send.success <=> (send.attempts >= 1 /\ send.seen[send.attempts] = "sent")
           /\ ~send.success => send.attempts = max
           /\ send.sleeps = Backoff(send.attempts - 1)
           /\ ~send.raised

\* C36: the history never holds more than 1000 entries, and it is the most
\* recent entries in arrival order.
C36_HistoryKeepsLast ==
    LET n == Len(notification_history) IN
    /\ n <= HistoryLimit
    /\ n = IF requests.handled <= HistoryLimit THEN requests.handled
           ELSE HistoryLimit
    /\ \A i \in 1..n :
          notification_history[i].id = requests.handled - n + i

C36_Witness ==
    /\ requests.handled = HistoryLimit + 2
    /\ Len(notification_history) = HistoryLimit
    /\ notification_history[1].id = 3
    /\ notification_history[HistoryLimit].id = HistoryLimit + 2

=============================================================================
